---- MODULE Spec2Model ----
(***************************************************************************)
(* A model of src/app.py (CONATOC Net): the user table and the login       *)
(* sessions, the content tables (papers, datasets, news, chat), and the    *)
(* Flask routes and Dash callbacks that read and write them.  One action   *)
(* per route/callback; its inputs are the values the browser sends.        *)
(*                                                                         *)
(* Text is a sequence of one-character strings, bytes are a sequence of    *)
(* integers, Python's None is the sentinel None (text) or NoBytes (bytes). *)
(* Fields no decision of the code depends on (affiliation, summary,        *)
(* description, the display date) are left out of the records.             *)
(***************************************************************************)
EXTENDS Integers, Sequences, FiniteSets, TLC

VARIABLES
    ADMIN_EMAIL,   \* configuration: os.environ ADMIN_EMAIL, read once at start
    users,         \* table user: sequence of rows, users[i].id = i
    cookies,       \* the user ids for which some browser holds a Flask-Login cookie
    pending,       \* the do_register requests between their duplicate check and their insert
    login_role,    \* history (kept by SpecSessions): the role each cookie's user had at login_user
    paper_upload_store,  \* a browser page's dcc.Store "paper-upload-store"
    ds_upload_store,     \* a browser page's dcc.Store "ds-upload-store"
    papers_table,        \* a browser page's DataTable "papers-table": its data, and as
                         \* history the listing last fetched into it
    ds_table,            \* the same for the DataTable "ds-table"
    papers,        \* table paper
    datasets,      \* table dataset
    news,          \* table news_post
    chat,          \* table chat_message
    now,           \* the reading of the local naive clock
    resp           \* the last request and the response the server gave to it

vars == <<ADMIN_EMAIL, users, cookies, pending, login_role, paper_upload_store, ds_upload_store,
         papers_table, ds_table,
         papers, datasets, news, chat, now, resp>>

-----------------------------------------------------------------------------
(* Bounds of the exploration *)

MaxUsers == 2
MaxRecords == 1
MaxStaged == 2
MaxTime == 2
MaxPending == 2

-----------------------------------------------------------------------------
(* Python values *)

None == <<"None">>
NoBytes == <<-1>>
NoSession == 0

Truthy(s) == s # None /\ Len(s) > 0
TruthyBytes(b) == b # NoBytes /\ Len(b) > 0

LowerChar(ch) ==
    CASE ch = "A" -> "a"
      [] ch = "D" -> "d"
      [] ch = "M" -> "m"
      [] ch = "N" -> "n"
      [] ch = "R" -> "r"
      [] ch = "X" -> "x"
      [] OTHER -> ch

lower(s) == [i \in 1..Len(s) |-> LowerChar(s[i])]

RECURSIVE lstrip(_)
lstrip(s) == IF Len(s) > 0 /\ Head(s) = " " THEN lstrip(Tail(s)) ELSE s

RECURSIVE rstrip(_)
rstrip(s) == IF Len(s) > 0 /\ s[Len(s)] = " " THEN rstrip(SubSeq(s, 1, Len(s) - 1)) ELSE s

strip(s) == rstrip(lstrip(s))

Contains(s, ch) == \E i \in 1..Len(s) : s[i] = ch

-----------------------------------------------------------------------------
(* Configuration *)

DefaultAdminEmail == <<"r", "@", "x">>
AdminEmails == {DefaultAdminEmail, <<"R", "@", "x">>}
ADMIN_PASSWORD == <<"C", "h", "a", "n", "g", "e", "M", "e", "N", "o", "w", "!">>
AdminName == <<"M">>

-----------------------------------------------------------------------------
(* werkzeug.security: a salted one-way hash.  The digest is modelled as the *)
(* pair (salt, password): equal exactly when salt and password are equal.   *)

Salts == {"s1"}
Digest(salt, password) == <<salt>> \o password
generate_password_hash(salt, password) == [salt |-> salt, digest |-> Digest(salt, password)]
check_password_hash(pwhash, password) == pwhash.digest = Digest(pwhash.salt, password)

-----------------------------------------------------------------------------
(* Users and sessions *)

Roles == {"admin", "researcher", "doctor", "patient"}

NewUser(id, email, name, role, pwhash) ==
    [id |-> id, email |-> email, name |-> name, role |-> role,
     password_hash |-> pwhash, is_active |-> TRUE]

Anonymous == [id |-> 0, email |-> None, name |-> None, role |-> "anonymous",
              password_hash |-> [salt |-> "", digest |-> <<>>], is_active |-> FALSE]

\* User.query.filter_by(email=e).first(): the comparison is case-sensitive
UsersByEmail(e) == {i \in DOMAIN users : users[i].email = e}

\* an upsert that also rewrites the row it finds
Bootstrap_reset(us, adminEmail) ==
    IF \E i \in DOMAIN us : us[i].email = adminEmail
    THEN [i \in DOMAIN us |->
            IF us[i].email = adminEmail
            THEN [us[i] EXCEPT !.role = "admin", !.is_active = TRUE,
                               !.password_hash = generate_password_hash("s1", ADMIN_PASSWORD)]
            ELSE us[i]]
    ELSE Append(us, NewUser(Len(us) + 1, adminEmail, AdminName, "admin",
                            generate_password_hash("s1", ADMIN_PASSWORD)))

\* the bootstrap block: create the admin if no row has the configured email
Bootstrap(us, adminEmail) ==
    IF \E i \in DOMAIN us : us[i].email = adminEmail
    THEN us
    ELSE Append(us, NewUser(Len(us) + 1, adminEmail, AdminName, "admin",
                            generate_password_hash("s1", ADMIN_PASSWORD)))

load_user(user_id) == IF user_id \in DOMAIN users THEN users[user_id] ELSE Anonymous

\* the role kept with the session at login instead of read from the table
current_user_cached(sid) ==
    IF sid \in DOMAIN login_role /\ sid \in DOMAIN users
    THEN [load_user(sid) EXCEPT !.role = login_role[sid]]
    ELSE load_user(sid)

\* flask_login.current_user of a request that carries the cookie of user id
\* sid (NoSession: no cookie): the user loader reads the row on every request
current_user(sid) == load_user(sid)

\* login_user(u) in a request that carried sid: the browser's cookie now names u
login_user(sid, uid) == (cookies \ {sid}) \cup {uid}

\* logout_user() in a request that carried sid
logout_user(sid) == cookies \ {sid}

\* every loaded user taken as authenticated, the is_active column not read
is_authenticated_loaded(u) == u.id # 0

\* UserMixin.is_authenticated returns self.is_active, and User.is_active is
\* the table column; the anonymous user is not authenticated
is_authenticated(u) == u.id # 0 /\ u.is_active

\* the cookie a request can carry: one a browser holds, or none
Requesters == cookies \cup {NoSession}

-----------------------------------------------------------------------------
(* Inputs the browser can send *)

Pw7 == <<"p", "a", "s", "s", "w", "o", "r">>
Pw8 == <<"p", "a", "s", "s", "w", "o", "r", "d">>
EmailInputs == {None, <<"a", "x">>, <<"a", "@", "x">>, <<" ", "A", "@", "X">>, <<"r", "@", "x">>,
                <<"d", "@", "x">>}
LoginPasswords == {None, Pw8, ADMIN_PASSWORD}
RoleInputs == {"patient", "researcher", "doctor", "admin"}

\* the register form: every email, every role for the emails that can be free,
\* and each way of leaving a field out or getting it wrong
GoodForm(e, r) == [name |-> <<"N">>, email |-> e, password |-> Pw8, role |-> r, consent |-> TRUE]
RegisterForms ==
    {GoodForm(e, "patient") : e \in EmailInputs}
    \cup {GoodForm(e, r) : e \in {<<"a", "@", "x">>, <<"r", "@", "x">>}, r \in RoleInputs}
    \cup {[GoodForm(<<"a", "@", "x">>, "patient") EXCEPT !.consent = FALSE],
          [GoodForm(<<"a", "@", "x">>, "patient") EXCEPT !.name = None],
          [GoodForm(<<"a", "@", "x">>, "patient") EXCEPT !.password = None],
          [GoodForm(<<"a", "@", "x">>, "patient") EXCEPT !.password = Pw7]}

-----------------------------------------------------------------------------
(* Auth callbacks *)

\* a response that depends on nothing the request carried but what decided `out`
Reply(op, out) == [op |-> op, out |-> out]

\* the is_active test left out
LoginOutcome_anyRow(email, password) ==
    IF ~Truthy(email) \/ ~Truthy(password) THEN "MissingField"
    ELSE LET found == UsersByEmail(lower(strip(email))) IN
         IF found = {} THEN "InvalidCredentials"
         ELSE LET u == users[CHOOSE i \in found : TRUE] IN
              IF ~check_password_hash(u.password_hash, password) THEN "InvalidCredentials"
              ELSE "OK"

\* the two tests on the row in the other order: is_active before the password
LoginOutcome_activeFirst(email, password) ==
    IF ~Truthy(email) \/ ~Truthy(password) THEN "MissingField"
    ELSE LET found == UsersByEmail(lower(strip(email))) IN
         IF found = {} THEN "InvalidCredentials"
         ELSE LET u == users[CHOOSE i \in found : TRUE] IN
              IF ~u.is_active THEN "AccountDeactivated"
              ELSE IF ~check_password_hash(u.password_hash, password) THEN "InvalidCredentials"
              ELSE "OK"

\* do_login: which of the four returns is taken
LoginOutcome(email, password) ==
    IF ~Truthy(email) \/ ~Truthy(password) THEN "MissingField"
    ELSE LET found == UsersByEmail(lower(strip(email))) IN
         IF found = {} THEN "InvalidCredentials"
         ELSE LET u == users[CHOOSE i \in found : TRUE] IN
              IF ~check_password_hash(u.password_hash, password) THEN "InvalidCredentials"
              ELSE IF ~u.is_active THEN "AccountDeactivated"
              ELSE "OK"

do_login(c, email, password) ==
    LET out == LoginOutcome(email, password) IN
    /\ cookies' = IF out = "OK"
                  THEN login_user(c, CHOOSE i \in UsersByEmail(lower(strip(email))) : TRUE)
                  ELSE cookies
    /\ resp' = Reply("do_login", out)
    /\ UNCHANGED <<ADMIN_EMAIL, users, papers, datasets, news, chat, now>>

route_logout(c) ==
    /\ cookies' = logout_user(c)
    /\ resp' = Reply("route_logout", "Redirect")
    /\ UNCHANGED <<ADMIN_EMAIL, users, papers, datasets, news, chat, now>>

\* the role stored as the request gives it
RegisterRole_asked(role) == role

\* the radio button's third value let through
RegisterRole_doctor(role) ==
    IF role \in {"patient", "researcher", "doctor"} THEN role ELSE "patient"

\* role=(role if role in ("patient","researcher") else "patient")
RegisterRole(role) == IF role \in {"patient", "researcher"} THEN role ELSE "patient"

\* the length test moved down by one
WeakPassword_seven(password) == Len(password) < 7

\* len(password) < 8
WeakPassword(password) == Len(password) < 8

\* do_register: the validation chain before the insert
RegisterOutcome(name, email, password, consent) ==
    IF ~consent THEN "ConsentRequired"
    ELSE IF ~Truthy(name) \/ ~Truthy(email) \/ ~Truthy(password) THEN "MissingField"
    ELSE IF ~Contains(lower(strip(email)), "@") THEN "InvalidEmail"
    ELSE IF WeakPassword(password) THEN "WeakCredential"
    ELSE IF UsersByEmail(lower(strip(email))) # {} THEN "DuplicateEmail"
    ELSE "OK"

do_register(c, name, email, password, role, consent, salt) ==
    LET out == RegisterOutcome(name, email, password, consent) IN
    /\ IF out = "OK"
       THEN /\ Len(users) < MaxUsers
            /\ users' = Append(users, NewUser(Len(users) + 1, lower(strip(email)), strip(name),
                                              RegisterRole(role),
                                              generate_password_hash(salt, password)))
            /\ cookies' = login_user(c, Len(users) + 1)
            /\ resp' = [op |-> "do_register", out |-> out, role |-> role]
       ELSE /\ UNCHANGED <<users, cookies>>
            /\ resp' = Reply("do_register", out)
    /\ UNCHANGED <<ADMIN_EMAIL, papers, datasets, news, chat, now>>

\* do_register served by two threads: a request that got past the duplicate
\* check (SELECT ... WHERE email = ...) and has not yet run its INSERT and commit
Idle == [email |-> None]

\* User.email is unique=True: the INSERT of an email some row has is refused by
\* the database, commit raises IntegrityError, and do_register has no handler
\* for it
UniqueEmailViolated(email) == UsersByEmail(email) # {}

register_check(t, c, name, email, password, role, consent, salt) ==
    LET out == RegisterOutcome(name, email, password, consent) IN
    /\ pending[t] = Idle
    /\ IF out = "OK"
       THEN /\ pending' = [pending EXCEPT ![t] =
                    [email |-> lower(strip(email)), c |-> c, name |-> strip(name),
                     role |-> RegisterRole(role),
                     password_hash |-> generate_password_hash(salt, password)]]
            /\ UNCHANGED resp
       ELSE /\ resp' = Reply("do_register", out)
            /\ UNCHANGED pending
    /\ UNCHANGED <<ADMIN_EMAIL, users, cookies, papers, datasets, news, chat, now>>

register_insert(t) ==
    LET r == pending[t] IN
    /\ r # Idle
    /\ pending' = [pending EXCEPT ![t] = Idle]
    /\ IF UniqueEmailViolated(r.email)
       THEN /\ resp' = Reply("do_register", "IntegrityError")
            /\ UNCHANGED <<users, cookies>>
       ELSE /\ Len(users) < MaxUsers
            /\ users' = Append(users, NewUser(Len(users) + 1, r.email, r.name, r.role,
                                              r.password_hash))
            /\ cookies' = login_user(r.c, Len(users) + 1)
            /\ resp' = [op |-> "do_register", out |-> "OK", role |-> r.role]
    /\ UNCHANGED <<ADMIN_EMAIL, papers, datasets, news, chat, now>>

-----------------------------------------------------------------------------
(* Admin actions *)

\* the rows of the admin table, one per user (their order is not modelled)
AdminRows(us) ==
    {[ID |-> us[i].id, Email |-> us[i].email, Role |-> us[i].role,
      Active |-> us[i].is_active] : i \in DOMAIN us}

\* researchers let into the admin console
AdminAuthorized_staff(u) == is_authenticated(u) /\ u.role \in {"admin", "researcher"}

\* the role test left out of the admin guard
AdminAuthorized_any(u) == is_authenticated(u)

\* not current_user.is_authenticated or current_user.role != "admin"
AdminAuthorized(u) == is_authenticated(u) /\ u.role = "admin"

\* doctor added to the roles the console may set
SettableRoles_doctor == {"admin", "researcher", "patient", "doctor"}

\* new_role not in ("admin","researcher","patient")
SettableRoles == {"admin", "researcher", "patient"}

\* the self test left out of deactivate
IsSelf_never(u, actor) == FALSE

\* if u.id == current_user.id: refuse
IsSelf(u, actor) == u.id = actor.id

AdminOutcome(c, trig, selected, uid, new_role) ==
    IF ~AdminAuthorized(current_user(c)) THEN "Unauthorized"
    ELSE IF ~selected THEN "NoSelection"
    ELSE IF uid \notin DOMAIN users THEN "NotFound"
    ELSE IF trig = "btn-admin-setrole"
         THEN IF new_role \notin SettableRoles THEN "InvalidRole" ELSE "RoleUpdated"
         ELSE IF IsSelf(users[uid], current_user(c)) THEN "SelfDeactivation" ELSE "Deactivated"

admin_actions(c, trig, selected, uid, new_role) ==
    LET out == AdminOutcome(c, trig, selected, uid, new_role) IN
    /\ users' = CASE out = "RoleUpdated" -> [users EXCEPT ![uid].role = new_role]
                  [] out = "Deactivated" -> [users EXCEPT ![uid].is_active = FALSE]
                  [] OTHER -> users
    /\ resp' = [op |-> "admin_actions", c |-> c, out |-> out,
                trig |-> IF out \in {"Unauthorized", "NoSelection"} THEN "" ELSE trig,
                uid |-> IF out \in {"Unauthorized", "NoSelection"} THEN 0 ELSE uid,
                rows |-> IF out \in {"RoleUpdated", "Deactivated"} THEN AdminRows(users') ELSE {}]
    /\ UNCHANGED <<ADMIN_EMAIL, cookies, papers, datasets, news, chat, now>>

Triggers == {"btn-admin-setrole", "btn-admin-deactivate"}

-----------------------------------------------------------------------------
(* Uploads: base64 text is a sequence of sextets 0..63, with 64 for "=" *)

RECURSIVE b64encode(_)
b64encode(b) ==
    IF Len(b) = 0 THEN <<>>
    ELSE IF Len(b) = 1 THEN <<b[1] \div 4, (b[1] % 4) * 16, 64, 64>>
    ELSE IF Len(b) = 2
         THEN <<b[1] \div 4, (b[1] % 4) * 16 + (b[2] \div 16), (b[2] % 16) * 4, 64>>
    ELSE <<b[1] \div 4, (b[1] % 4) * 16 + (b[2] \div 16),
           (b[2] % 16) * 4 + (b[3] \div 64), b[3] % 64>> \o b64encode(SubSeq(b, 4, Len(b)))

RECURSIVE b64decode(_)
b64decode(t) ==
    IF Len(t) < 4 THEN <<>>
    ELSE (IF t[3] = 64 THEN <<t[1] * 4 + (t[2] \div 16)>>
          ELSE IF t[4] = 64
               THEN <<t[1] * 4 + (t[2] \div 16), (t[2] % 16) * 16 + (t[3] \div 4)>>
          ELSE <<t[1] * 4 + (t[2] \div 16), (t[2] % 16) * 16 + (t[3] \div 4),
                 (t[3] % 4) * 64 + t[4]>>) \o b64decode(SubSeq(t, 5, Len(t)))

\* dcc.Upload's contents, "data:<type>;base64,<text>", as the pair split(",", 1) gives
NoContents == [present |-> FALSE, content_type |-> <<>>, content_string |-> <<>>]
Contents(raw) == [present |-> TRUE, content_type |-> <<"d">>, content_string |-> b64encode(raw)]

\* a dcc.Store's data: None, or {"bytes_b64": ..., "filename": ...}
NoStore == [present |-> FALSE, bytes_b64 |-> <<>>, filename |-> None]

cache_ds_upload(contents, filename) ==
    IF ~contents.present \/ Len(contents.content_type) + Len(contents.content_string) = 0
    THEN NoStore
    ELSE [present |-> TRUE, bytes_b64 |-> b64encode(b64decode(contents.content_string)),
          filename |-> filename]

cache_paper_upload(contents, filename) ==
    IF ~contents.present \/ Len(contents.content_type) + Len(contents.content_string) = 0
    THEN NoStore
    ELSE [present |-> TRUE, bytes_b64 |-> b64encode(b64decode(contents.content_string)),
          filename |-> filename]

\* file_name, file_bytes as publish_paper and publish_dataset take them from the store
StoredFile(upload_store) ==
    IF upload_store.present /\ Len(upload_store.bytes_b64) > 0
    THEN [file_name |-> upload_store.filename, file_bytes |-> b64decode(upload_store.bytes_b64)]
    ELSE [file_name |-> None, file_bytes |-> NoBytes]

FileA == <<1, 2, 255, 7>>
FileName == <<"f">>
\* what a browser's store can hold: nothing, or the cached upload of a file
UploadStores == {NoStore, cache_ds_upload(Contents(FileA), FileName)}

-----------------------------------------------------------------------------
(* Listings *)

\* the rows in the content tables (the exploration stops adding at MaxRecords)
ContentRows == Len(papers) + Len(datasets) + Len(news) + Len(chat)


\* X.query.order_by(X.created_at.desc()).all(): the orders the database may
\* return the rows in; rows with equal created_at come in any order
\* (built stamp by stamp from the latest one down, so that a long table is
\* ordered without enumerating every arrangement of its rows)
RECURSIVE Arrangements(_)
Arrangements(S) ==
    IF S = {} THEN {<<>>}
    ELSE UNION {{<<i>> \o r : r \in Arrangements(S \ {i})} : i \in S}

RECURSIVE LatestStamp(_, _)
LatestStamp(recs, n) ==
    IF n = 0 THEN 0
    ELSE LET before == LatestStamp(recs, n - 1) IN
         IF recs[n].created_at > before THEN recs[n].created_at ELSE before

RECURSIVE StampedUpTo(_, _)
StampedUpTo(recs, t) ==
    IF t < 0 THEN {<<>>}
    ELSE LET at == {i \in DOMAIN recs : recs[i].created_at = t}
             earlier == StampedUpTo(recs, t - 1) IN
         {a \o r : a \in Arrangements(at), r \in earlier}

OrderByCreatedAtDesc(recs) == StampedUpTo(recs, LatestStamp(recs, Len(recs)))

OrEmpty(s) == IF Truthy(s) THEN s ELSE <<>>
StripOrNone(s) == IF Truthy(s) THEN strip(s) ELSE None
UploaderName(uid) == IF uid \in DOMAIN users THEN users[uid].name ELSE <<"-">>

-----------------------------------------------------------------------------
(* Data Hub *)

DatasetRow(ds) ==
    [ID |-> ds.id, Title |-> ds.title, Tags |-> OrEmpty(ds.tags), Visibility |-> ds.visibility,
     Uploaded_by |-> UploaderName(ds.uploaded_by), Link |-> OrEmpty(ds.link),
     File |-> IF TruthyBytes(ds.file_bytes) THEN "Yes" ELSE "No"]

DatasetRows(dss, p) == [i \in 1..Len(dss) |-> DatasetRow(dss[p[i]])]

\* vis = vis if vis in ("members","researchers") else "members"
NormalVisibility(vis) == IF vis \in {"members", "researchers"} THEN vis ELSE "members"

\* the role list of the publish check widened to doctors
MayPublishVisibility_doctor(u, vis) ==
    ~(vis = "researchers" /\ u.role \notin {"admin", "researcher", "doctor"})

\* vis == "researchers" and current_user.role not in ("admin","researcher")
MayPublishVisibility(u, vis) == ~(vis = "researchers" /\ u.role \notin {"admin", "researcher"})

PublishDatasetOutcome(c, title, vis) ==
    IF ~is_authenticated(current_user(c)) THEN "LoginRequired"
    ELSE IF ~Truthy(title) THEN "MissingField"
    ELSE IF ~MayPublishVisibility(current_user(c), NormalVisibility(vis)) THEN "Unauthorized"
    ELSE "OK"

publish_dataset(c, title, link, tags, vis, upload_store) ==
    LET out == PublishDatasetOutcome(c, title, vis) IN
    /\ IF out = "OK"
       THEN /\ datasets' = Append(datasets,
                    [id |-> Len(datasets) + 1, title |-> strip(title), link |-> StripOrNone(link),
                     tags |-> StripOrNone(tags), visibility |-> NormalVisibility(vis),
                     created_at |-> now, uploaded_by |-> current_user(c).id,
                     file_name |-> StoredFile(upload_store).file_name,
                     file_bytes |-> StoredFile(upload_store).file_bytes])
            /\ \E p \in OrderByCreatedAtDesc(datasets') :
                   resp' = [op |-> "publish_dataset", c |-> c, out |-> out, vis |-> vis,
                            rows |-> DatasetRows(datasets', p)]
       ELSE /\ UNCHANGED datasets
            /\ resp' = [op |-> "publish_dataset", c |-> c, out |-> out,
                        vis |-> IF out = "Unauthorized" THEN vis ELSE "", rows |-> <<>>]
    /\ UNCHANGED <<ADMIN_EMAIL, users, cookies, papers, news, chat, now>>

page_data(c) ==
    /\ IF ~is_authenticated(current_user(c))
       THEN resp' = [op |-> "page_data", c |-> c, out |-> "LoginRequired", rows |-> <<>>]
       ELSE \E p \in OrderByCreatedAtDesc(datasets) :
                resp' = [op |-> "page_data", c |-> c, out |-> "OK", rows |-> DatasetRows(datasets, p)]
    /\ UNCHANGED <<ADMIN_EMAIL, users, cookies, papers, datasets, news, chat, now>>

\* the visibility check left out of the download route
MayDownload_unchecked(u, ds) == TRUE

\* ds.visibility == "researchers" and current_user.role not in ("admin", "researcher")
MayDownload(u, ds) == ~(ds.visibility = "researchers" /\ u.role \notin {"admin", "researcher"})

DownloadDatasetOutcome(c, dataset_id) ==
    IF ~is_authenticated(current_user(c)) THEN "Redirect"
    ELSE IF dataset_id \notin DOMAIN datasets THEN "NotFound"
    ELSE IF ~TruthyBytes(datasets[dataset_id].file_bytes) THEN "NotFound"
    ELSE IF ~MayDownload(current_user(c), datasets[dataset_id]) THEN "Forbidden"
    ELSE "OK"

download_dataset(c, dataset_id) ==
    LET out == DownloadDatasetOutcome(c, dataset_id) IN
    /\ resp' = [op |-> "download_dataset", c |-> c, out |-> out, id |-> dataset_id,
                body |-> IF out = "OK" THEN datasets[dataset_id].file_bytes ELSE NoBytes]
    /\ UNCHANGED <<ADMIN_EMAIL, users, cookies, papers, datasets, news, chat, now>>

TitleInputs == {None, <<>>, <<"D">>}
VisibilityInputs == {"members", "researchers", "public"}

-----------------------------------------------------------------------------
(* Papers, the home page and the news feed *)

Take(seq, n) == SubSeq(seq, 1, IF Len(seq) < n THEN Len(seq) ELSE n)

HomePapersLimit == 6
HomeNewsLimit == 4
NewsFeedLimit == 10
ChatFeedLimit == 60

PaperRow(p) ==
    [ID |-> p.id, Title |-> p.title, Tags |-> OrEmpty(p.tags),
     Uploaded_by |-> UploaderName(p.uploaded_by), Link |-> OrEmpty(p.link),
     PDF |-> IF TruthyBytes(p.file_bytes) THEN "Yes" ELSE "No"]

PaperRows(ps, p) == [i \in 1..Len(ps) |-> PaperRow(ps[p[i]])]

\* paper_card: title, tags, the link and the download button
PaperCard(p) ==
    [Title |-> p.title, Tags |-> OrEmpty(p.tags), Link |-> OrEmpty(p.link),
     Download |-> IF TruthyBytes(p.file_bytes) THEN p.id ELSE 0]

\* news_card and render_news_cards: title, body, link
NewsCard(n) == [Title |-> n.title, Body |-> n.body, Link |-> OrEmpty(n.link)]

\* page_home has no guard: it renders for every visitor
page_home(c) ==
    /\ \E p \in OrderByCreatedAtDesc(papers), q \in OrderByCreatedAtDesc(news) :
          resp' = [op |-> "page_home", c |-> c, out |-> "OK",
                   papers_count |-> Len(papers),
                   papers |-> Take([i \in 1..Len(papers) |-> PaperCard(papers[p[i]])], HomePapersLimit),
                   news |-> Take([i \in 1..Len(news) |-> NewsCard(news[q[i]])], HomeNewsLimit)]
    /\ UNCHANGED <<ADMIN_EMAIL, users, cookies, papers, datasets, news, chat, now>>

page_papers(c) ==
    /\ IF ~is_authenticated(current_user(c))
       THEN resp' = [op |-> "page_papers", c |-> c, out |-> "LoginRequired", rows |-> <<>>]
       ELSE \E p \in OrderByCreatedAtDesc(papers) :
                resp' = [op |-> "page_papers", c |-> c, out |-> "OK", rows |-> PaperRows(papers, p)]
    /\ UNCHANGED <<ADMIN_EMAIL, users, cookies, papers, datasets, news, chat, now>>

\* the title test left out
PublishPaperOutcome_untitled(c, title) ==
    IF ~is_authenticated(current_user(c)) THEN "LoginRequired" ELSE "OK"

PublishPaperOutcome(c, title) ==
    IF ~is_authenticated(current_user(c)) THEN "LoginRequired"
    ELSE IF ~Truthy(title) THEN "MissingField"
    ELSE "OK"

publish_paper(c, title, link, tags, upload_store) ==
    LET out == PublishPaperOutcome(c, title) IN
    /\ IF out = "OK"
       THEN /\ papers' = Append(papers,
                    [id |-> Len(papers) + 1, title |-> strip(title), link |-> StripOrNone(link),
                     tags |-> StripOrNone(tags), created_at |-> now,
                     uploaded_by |-> current_user(c).id,
                     file_name |-> StoredFile(upload_store).file_name,
                     file_bytes |-> StoredFile(upload_store).file_bytes])
            /\ \E p \in OrderByCreatedAtDesc(papers') :
                   resp' = [op |-> "publish_paper", c |-> c, out |-> out,
                            rows |-> PaperRows(papers', p)]
       ELSE /\ UNCHANGED papers
            /\ resp' = [op |-> "publish_paper", c |-> c, out |-> out, rows |-> <<>>]
    /\ UNCHANGED <<ADMIN_EMAIL, users, cookies, datasets, news, chat, now>>

\* the dataset route's role test copied into the paper route
DownloadPaperOutcome_restricted(c, paper_id) ==
    IF ~is_authenticated(current_user(c)) THEN "Redirect"
    ELSE IF paper_id \notin DOMAIN papers THEN "NotFound"
    ELSE IF ~TruthyBytes(papers[paper_id].file_bytes) THEN "NotFound"
    ELSE IF current_user(c).role \notin {"admin", "researcher"} THEN "Forbidden"
    ELSE "OK"

DownloadPaperOutcome(c, paper_id) ==
    IF ~is_authenticated(current_user(c)) THEN "Redirect"
    ELSE IF paper_id \notin DOMAIN papers THEN "NotFound"
    ELSE IF ~TruthyBytes(papers[paper_id].file_bytes) THEN "NotFound"
    ELSE "OK"

download_paper(c, paper_id) ==
    LET out == DownloadPaperOutcome(c, paper_id) IN
    /\ resp' = [op |-> "download_paper", c |-> c, out |-> out, id |-> paper_id,
                body |-> IF out = "OK" THEN papers[paper_id].file_bytes ELSE NoBytes]
    /\ UNCHANGED <<ADMIN_EMAIL, users, cookies, papers, datasets, news, chat, now>>

refresh_news(c) ==
    /\ IF ~is_authenticated(current_user(c))
       THEN resp' = [op |-> "refresh_news", c |-> c, out |-> "Empty", news |-> <<>>]
       ELSE \E q \in OrderByCreatedAtDesc(news) :
                resp' = [op |-> "refresh_news", c |-> c, out |-> "OK",
                         news |-> Take([i \in 1..Len(news) |-> NewsCard(news[q[i]])], NewsFeedLimit)]
    /\ UNCHANGED <<ADMIN_EMAIL, users, cookies, papers, datasets, news, chat, now>>

PublishNewsOutcome(c, title, body) ==
    IF ~is_authenticated(current_user(c)) THEN "LoginRequired"
    ELSE IF ~Truthy(title) \/ ~Truthy(body) THEN "MissingField"
    ELSE "OK"

publish_news(c, title, link, body) ==
    LET out == PublishNewsOutcome(c, title, body) IN
    /\ IF out = "OK"
       THEN /\ news' = Append(news,
                    [id |-> Len(news) + 1, title |-> strip(title), body |-> strip(body),
                     link |-> StripOrNone(link), created_at |-> now,
                     created_by |-> current_user(c).id])
       ELSE UNCHANGED news
    /\ resp' = [op |-> "publish_news", c |-> c, out |-> out]
    /\ UNCHANGED <<ADMIN_EMAIL, users, cookies, papers, datasets, chat, now>>

BodyInputs == {None, <<>>, <<"B">>}

-----------------------------------------------------------------------------
(* Community chat *)

\* a slip in the table: patients let into the research channel
can_access_channel_open(u, ch) ==
    IF ch = "general" THEN TRUE
    ELSE IF ch = "research" THEN u.role \in {"admin", "researcher", "doctor", "patient"}
    ELSE IF ch = "patients" THEN u.role \in {"admin", "patient"}
    ELSE FALSE

can_access_channel(u, ch) ==
    IF ch = "general" THEN TRUE
    ELSE IF ch = "research" THEN u.role \in {"admin", "researcher", "doctor"}
    ELSE IF ch = "patients" THEN u.role \in {"admin", "patient"}
    ELSE FALSE

\* the list left in the order of the query
Reverse_kept(seq) == seq

Reverse(seq) == [i \in 1..Len(seq) |-> seq[Len(seq) + 1 - i]]

ChatItem(m) == [Name |-> UploaderName(m.created_by), Message |-> m.message, Channel |-> m.channel]

OfChannel(ch) == SelectSeq(chat, LAMBDA m : m.channel = ch)

refresh_chat(c, channel) ==
    /\ IF ~is_authenticated(current_user(c))
       THEN resp' = [op |-> "refresh_chat", c |-> c, channel |-> channel, out |-> "Empty",
                     items |-> <<>>]
       ELSE IF ~can_access_channel(current_user(c), channel)
       THEN resp' = [op |-> "refresh_chat", c |-> c, channel |-> channel, out |-> "Restricted",
                     items |-> <<>>]
       ELSE LET msgs == OfChannel(channel) IN
            \E p \in OrderByCreatedAtDesc(msgs) :
                resp' = [op |-> "refresh_chat", c |-> c, channel |-> channel, out |-> "OK",
                         items |-> Reverse(Take([i \in 1..Len(msgs) |-> ChatItem(msgs[p[i]])],
                                                ChatFeedLimit))]
    /\ UNCHANGED <<ADMIN_EMAIL, users, cookies, papers, datasets, news, chat, now>>

\* the test of the stripped text left out
SendChatOutcome_blank(c, channel, text) ==
    IF ~is_authenticated(current_user(c)) THEN "LoginRequired"
    ELSE IF ~can_access_channel(current_user(c), channel) THEN "Restricted"
    ELSE IF ~Truthy(text) THEN "EmptyMessage"
    ELSE "Sent"

SendChatOutcome(c, channel, text) ==
    IF ~is_authenticated(current_user(c)) THEN "LoginRequired"
    ELSE IF ~can_access_channel(current_user(c), channel) THEN "Restricted"
    ELSE IF ~Truthy(text) \/ ~Truthy(strip(text)) THEN "EmptyMessage"
    ELSE "Sent"

send_chat(c, channel, text) ==
    LET out == SendChatOutcome(c, channel, text) IN
    /\ IF out = "Sent"
       THEN /\ chat' = Append(chat,
                    [id |-> Len(chat) + 1, channel |-> channel, message |-> strip(text),
                     created_at |-> now, created_by |-> current_user(c).id])
       ELSE UNCHANGED chat
    /\ resp' = [op |-> "send_chat", c |-> c, channel |-> channel, out |-> out]
    /\ UNCHANGED <<ADMIN_EMAIL, users, cookies, papers, datasets, news, now>>

ChannelInputs == {"general", "research", "patients", "admins"}
TextInputs == {None, <<" ">>, <<" ", "h", " ">>}

-----------------------------------------------------------------------------
(* The patient directory *)

RECURSIVE IsSubstring(_, _)
IsSubstring(q, s) ==
    IF Len(q) > Len(s) THEN FALSE
    ELSE IF SubSeq(s, 1, Len(q)) = q THEN TRUE
    ELSE IsSubstring(q, Tail(s))

Patients == {i \in DOMAIN users : users[i].role = "patient"}

\* the rows of the patients table (their order is not modelled)
PatientRow(u) == [Name |-> u.name, Email |-> u.email]

\* the guards of page_patients before the query: which page is rendered
PagePatientsOutcome(u) ==
    IF ~is_authenticated(u) THEN "LoginRequired"
    ELSE IF u.role = "patient" THEN "SelfSummary"
    ELSE "OK"

page_patients(c) ==
    LET out == PagePatientsOutcome(current_user(c)) IN
    /\ resp' = [op |-> "page_patients", c |-> c, out |-> out,
                rows |-> IF out = "OK" THEN {PatientRow(users[i]) : i \in Patients} ELSE {}]
    /\ UNCHANGED <<ADMIN_EMAIL, users, cookies, papers, datasets, news, chat, now>>

\* not current_user.is_authenticated or current_user.role not in ("admin","researcher")
MayFilterPatients(u) == is_authenticated(u) /\ u.role \in {"admin", "researcher"}

filter_patients(c, q) ==
    LET query == IF Truthy(q) THEN lower(strip(q)) ELSE <<>> IN
    /\ resp' = [op |-> "filter_patients", c |-> c,
                out |-> IF MayFilterPatients(current_user(c)) THEN "OK" ELSE "Empty",
                rows |-> IF ~MayFilterPatients(current_user(c)) THEN {}
                         ELSE {PatientRow(users[i]) : i \in
                                 {j \in Patients : Len(query) = 0
                                    \/ IsSubstring(query, lower(users[j].name \o users[j].email))}}]
    /\ UNCHANGED <<ADMIN_EMAIL, users, cookies, papers, datasets, news, chat, now>>

QueryInputs == {None, <<"A">>, <<"z">>}

-----------------------------------------------------------------------------
(* The search boxes of the papers and datasets tables *)

\* str(r.get("Visibility", ""))
VisibilityText(vis) ==
    IF vis = "members" THEN <<"m", "e", "m", "b", "e", "r", "s">>
    ELSE <<"r", "e", "s", "e", "a", "r", "c", "h", "e", "r", "s">>

\* q = (q or "").strip().lower()
SearchQuery(q) == IF Truthy(q) THEN lower(strip(q)) ELSE <<>>

\* q in str(...).lower()
Hit(query, text) == IsSubstring(query, lower(text))

\* filter_papers: data is the table's current data, and the result replaces it
filter_papers(q, data) ==
    IF Len(SearchQuery(q)) = 0 THEN data
    ELSE SelectSeq(data, LAMBDA r :
            \/ Hit(SearchQuery(q), r.Title)
            \/ Hit(SearchQuery(q), r.Tags)
            \/ Hit(SearchQuery(q), r.Uploaded_by)
            \/ Hit(SearchQuery(q), r.Link))

\* filter_ds: the same, with the Visibility column among the searched ones
filter_ds(q, data) ==
    IF Len(SearchQuery(q)) = 0 THEN data
    ELSE SelectSeq(data, LAMBDA r :
            \/ Hit(SearchQuery(q), r.Title)
            \/ Hit(SearchQuery(q), r.Tags)
            \/ Hit(SearchQuery(q), r.Uploaded_by)
            \/ Hit(SearchQuery(q), r.Link)
            \/ Hit(SearchQuery(q), VisibilityText(r.Visibility)))

\* a DataTable: what the server last sent into it, and what it shows
NoTable == [fetched |-> <<>>, data |-> <<>>]
Fetched(rows) == [fetched |-> rows, data |-> rows]

SearchInputs == {None, <<"M">>, <<"z">>}

-----------------------------------------------------------------------------
(* Specifications *)

NoReply == Reply("none", "none")

\* a fresh database, after the bootstrap block has run
Init ==
    /\ ADMIN_EMAIL \in AdminEmails
    /\ users = Bootstrap(<<>>, ADMIN_EMAIL)
    /\ cookies = {}
    /\ pending = [t \in 1..MaxPending |-> Idle]
    /\ login_role = <<>>
    /\ paper_upload_store = NoStore
    /\ ds_upload_store = NoStore
    /\ papers_table = NoTable
    /\ ds_table = NoTable
    /\ papers = <<>>
    /\ datasets = <<>>
    /\ news = <<>>
    /\ chat = <<>>
    /\ now = 1
    /\ resp = NoReply

Login ==
    /\ \E c \in Requesters, e \in EmailInputs, p \in LoginPasswords : do_login(c, e, p)
    /\ UNCHANGED <<pending, login_role, paper_upload_store, ds_upload_store, papers_table, ds_table>>
Logout ==
    /\ \E c \in Requesters : route_logout(c)
    /\ UNCHANGED <<pending, login_role, paper_upload_store, ds_upload_store, papers_table, ds_table>>
Register ==
    /\ \E c \in Requesters, f \in RegisterForms, s \in Salts :
           do_register(c, f.name, f.email, f.password, f.role, f.consent, s)
    /\ UNCHANGED <<pending, login_role, paper_upload_store, ds_upload_store, papers_table, ds_table>>
\* the admin console's requests: set each role on each row, deactivate each row
\* (the role select keeps its initial value), or press a button with no row selected
AdminForms ==
    {[trig |-> "btn-admin-setrole", selected |-> TRUE, uid |-> u, new_role |-> r] :
        u \in 1..(Len(users) + 1), r \in RoleInputs}
    \cup {[trig |-> "btn-admin-deactivate", selected |-> TRUE, uid |-> u, new_role |-> "researcher"] :
        u \in 1..(Len(users) + 1)}
    \cup {[trig |-> t, selected |-> FALSE, uid |-> 1, new_role |-> "researcher"] : t \in Triggers}
Admin ==
    /\ \E c \in Requesters, f \in AdminForms :
           admin_actions(c, f.trig, f.selected, f.uid, f.new_role)
    /\ UNCHANGED <<pending, login_role, paper_upload_store, ds_upload_store, papers_table, ds_table>>

PublishDataset ==
    /\ \E c \in Requesters, t \in TitleInputs, v \in VisibilityInputs, st \in UploadStores :
           publish_dataset(c, t, None, None, v, st)
    /\ ContentRows' <= MaxRecords
    /\ UNCHANGED <<pending, login_role, paper_upload_store, ds_upload_store, papers_table, ds_table>>
PageData ==
    /\ \E c \in Requesters : page_data(c)
    /\ UNCHANGED <<pending, login_role, paper_upload_store, ds_upload_store, papers_table, ds_table>>
DownloadDataset ==
    /\ \E c \in Requesters, id \in 1..(Len(datasets) + 1) : download_dataset(c, id)
    /\ UNCHANGED <<pending, login_role, paper_upload_store, ds_upload_store, papers_table, ds_table>>

\* a database that already holds a doctor's account (role doctor is set by
\* editing the table: no callback assigns it), then the bootstrap block
DoctorEmail == <<"d", "@", "x">>
SeedUsers == <<NewUser(1, DoctorEmail, <<"D">>, "doctor", generate_password_hash("s1", Pw8))>>

InitSeeded ==
    /\ ADMIN_EMAIL = DefaultAdminEmail
    /\ users = Bootstrap(SeedUsers, ADMIN_EMAIL)
    /\ cookies = {}
    /\ pending = [t \in 1..MaxPending |-> Idle]
    /\ login_role = <<>>
    /\ paper_upload_store = NoStore
    /\ ds_upload_store = NoStore
    /\ papers_table = NoTable
    /\ ds_table = NoTable
    /\ papers = <<>>
    /\ datasets = <<>>
    /\ news = <<>>
    /\ chat = <<>>
    /\ now = 1
    /\ resp = NoReply

PublishPaper ==
    /\ \E c \in Requesters, t \in TitleInputs, st \in UploadStores :
           publish_paper(c, t, None, None, st)
    /\ ContentRows' <= MaxRecords
    /\ UNCHANGED <<pending, login_role, paper_upload_store, ds_upload_store, papers_table, ds_table>>
PagePapers ==
    /\ \E c \in Requesters : page_papers(c)
    /\ UNCHANGED <<pending, login_role, paper_upload_store, ds_upload_store, papers_table, ds_table>>
PageHome ==
    /\ \E c \in Requesters : page_home(c)
    /\ UNCHANGED <<pending, login_role, paper_upload_store, ds_upload_store, papers_table, ds_table>>
DownloadPaper ==
    /\ \E c \in Requesters, id \in 1..(Len(papers) + 1) : download_paper(c, id)
    /\ UNCHANGED <<pending, login_role, paper_upload_store, ds_upload_store, papers_table, ds_table>>
PublishNews ==
    /\ \E c \in Requesters, t \in TitleInputs, b \in BodyInputs : publish_news(c, t, None, b)
    /\ ContentRows' <= MaxRecords
    /\ UNCHANGED <<pending, login_role, paper_upload_store, ds_upload_store, papers_table, ds_table>>
RefreshNews ==
    /\ \E c \in Requesters : refresh_news(c)
    /\ UNCHANGED <<pending, login_role, paper_upload_store, ds_upload_store, papers_table, ds_table>>
RefreshChat ==
    /\ \E c \in Requesters, ch \in ChannelInputs : refresh_chat(c, ch)
    /\ UNCHANGED <<pending, login_role, paper_upload_store, ds_upload_store, papers_table, ds_table>>
SendChat ==
    /\ \E c \in Requesters, ch \in ChannelInputs, t \in TextInputs : send_chat(c, ch, t)
    /\ ContentRows' <= MaxRecords
    /\ UNCHANGED <<pending, login_role, paper_upload_store, ds_upload_store, papers_table, ds_table>>
PagePatients ==
    /\ \E c \in Requesters : page_patients(c)
    /\ UNCHANGED <<pending, login_role, paper_upload_store, ds_upload_store, papers_table, ds_table>>
FilterPatients ==
    /\ \E c \in Requesters, q \in QueryInputs : filter_patients(c, q)
    /\ UNCHANGED <<pending, login_role, paper_upload_store, ds_upload_store, papers_table, ds_table>>

NextPapers ==
    Login \/ Logout \/ Register \/ Admin \/ PublishPaper \/ PagePapers \/ PageHome
    \/ DownloadPaper \/ PublishNews \/ RefreshNews

SpecPapers == Init /\ [][NextPapers]_vars

NextChat == Login \/ Logout \/ Register \/ Admin \/ RefreshChat \/ SendChat

SpecChat == InitSeeded /\ [][NextChat]_vars

NextRegistry == Login \/ Logout \/ Register \/ Admin \/ PagePatients \/ FilterPatients

SpecRegistry == InitSeeded /\ [][NextRegistry]_vars

NextData == Login \/ Logout \/ Register \/ Admin \/ PublishDataset \/ PageData \/ DownloadDataset

SpecData == InitSeeded /\ [][NextData]_vars

\* login and logout with the history of the role each session started with:
\* login_user(u) puts u's id in the cookie, and u's role at that moment is noted
SessionRoles(cs, uid, role) == [i \in cs |-> IF i = uid THEN role ELSE login_role[i]]

LoginSession ==
    \E c \in Requesters, e \in {DoctorEmail, DefaultAdminEmail}, p \in {Pw8, ADMIN_PASSWORD} :
        /\ do_login(c, e, p)
        /\ login_role' =
              IF LoginOutcome(e, p) = "OK"
              THEN LET u == users[CHOOSE i \in UsersByEmail(lower(strip(e))) : TRUE]
                   IN  SessionRoles(cookies', u.id, u.role)
              ELSE login_role
        /\ UNCHANGED <<pending, paper_upload_store, ds_upload_store, papers_table, ds_table>>

LogoutSession ==
    \E c \in Requesters :
        /\ route_logout(c)
        /\ login_role' = SessionRoles(cookies', NoSession, "")
        /\ UNCHANGED <<pending, paper_upload_store, ds_upload_store, papers_table, ds_table>>

\* the requests whose answer depends on the requester's role, with the inputs
\* that reach the role test: set-role on an existing row, a message with text,
\* a dataset with a file published for researchers, the whole patient list
SetRole ==
    /\ \E c \in Requesters, uid \in DOMAIN users, r \in SettableRoles :
           admin_actions(c, "btn-admin-setrole", TRUE, uid, r)
    /\ UNCHANGED <<pending, login_role, paper_upload_store, ds_upload_store, papers_table, ds_table>>
SendText ==
    /\ \E c \in Requesters, ch \in ChannelInputs : send_chat(c, ch, <<"h">>)
    /\ ContentRows' <= MaxRecords
    /\ UNCHANGED <<pending, login_role, paper_upload_store, ds_upload_store, papers_table, ds_table>>
PublishForResearchers ==
    /\ \E c \in Requesters :
           publish_dataset(c, <<"D">>, None, None, "researchers",
                           cache_ds_upload(Contents(FileA), FileName))
    /\ ContentRows' <= MaxRecords
    /\ UNCHANGED <<pending, login_role, paper_upload_store, ds_upload_store, papers_table, ds_table>>
ListPatients ==
    /\ \E c \in Requesters : filter_patients(c, None)
    /\ UNCHANGED <<pending, login_role, paper_upload_store, ds_upload_store, papers_table, ds_table>>

NextSessions ==
    LoginSession \/ LogoutSession \/ SetRole \/ RefreshChat \/ SendText
    \/ PublishForResearchers \/ DownloadDataset \/ PagePatients \/ ListPatients

SpecSessions == InitSeeded /\ [][NextSessions]_vars

\* the seeded users' logins, with the passwords that can be right
LoginSeeded ==
    /\ \E c \in Requesters, e \in {DoctorEmail, DefaultAdminEmail}, p \in {Pw8, ADMIN_PASSWORD} :
           do_login(c, e, p)
    /\ UNCHANGED <<pending, login_role, paper_upload_store, ds_upload_store, papers_table, ds_table>>

\* the files a user can pick in dcc.Upload, the empty file among them
FileB == <<9, 8>>
Files == {<<>>, FileA, FileB}

\* the upload callbacks: their first output is the page's store
StagePaper ==
    /\ \E contents \in {NoContents} \cup {Contents(raw) : raw \in Files} :
           /\ paper_upload_store' = cache_paper_upload(contents, FileName)
           /\ resp' = Reply("cache_paper_upload", IF contents.present THEN "Selected" ELSE "")
    /\ UNCHANGED <<ADMIN_EMAIL, users, cookies, pending, login_role, ds_upload_store, papers_table, ds_table,
                   papers, datasets, news, chat, now>>

StageDataset ==
    /\ \E contents \in {NoContents} \cup {Contents(raw) : raw \in Files} :
           /\ ds_upload_store' = cache_ds_upload(contents, FileName)
           /\ resp' = Reply("cache_ds_upload", IF contents.present THEN "Selected" ELSE "")
    /\ UNCHANGED <<ADMIN_EMAIL, users, cookies, pending, login_role, paper_upload_store, papers_table, ds_table,
                   papers, datasets, news, chat, now>>

\* the publish buttons: the callback gets the page's store as State, and no
\* output of it is the store
PublishStagedPaper ==
    /\ \E c \in Requesters, t \in TitleInputs : publish_paper(c, t, None, None, paper_upload_store)
    /\ ContentRows' <= MaxStaged
    /\ UNCHANGED <<pending, login_role, paper_upload_store, ds_upload_store, papers_table, ds_table>>

PublishStagedDataset ==
    /\ \E c \in Requesters, t \in TitleInputs :
           publish_dataset(c, t, None, None, "members", ds_upload_store)
    /\ ContentRows' <= MaxStaged
    /\ UNCHANGED <<pending, login_role, paper_upload_store, ds_upload_store, papers_table, ds_table>>

NextUploads ==
    LoginSeeded \/ Logout \/ StagePaper \/ StageDataset \/ PublishStagedPaper
    \/ PublishStagedDataset \/ DownloadPaper \/ DownloadDataset

SpecUploads == InitSeeded /\ [][NextUploads]_vars

\* now_local(): the zone's wall-clock time without its offset. Between two
\* requests it may read the same, later, or (when the zone's clocks are set
\* back) earlier
Times == 0..MaxTime

Tick ==
    /\ now' \in Times \ {now}
    /\ UNCHANGED <<ADMIN_EMAIL, users, cookies, pending, login_role, paper_upload_store, ds_upload_store,
                   papers_table, ds_table,
                   papers, datasets, news, chat, resp>>

NextClock == LoginSeeded \/ Logout \/ Tick \/ PublishStagedPaper \/ PublishStagedDataset

SpecClock == InitSeeded /\ [][NextClock]_vars

\* the two download routes, asked by the seeded users under each role the
\* console can give them, and by visitors
NextDownloads ==
    LoginSeeded \/ Logout \/ SetRole \/ PublishPaper \/ PublishDataset
    \/ DownloadPaper \/ DownloadDataset

SpecDownloads == InitSeeded /\ [][NextDownloads]_vars

\* a process start: the module is loaded again, with the environment's
\* ADMIN_EMAIL of that start, and the bootstrap block runs on the database as it
\* is; the browsers keep their cookies
Restart ==
    /\ ADMIN_EMAIL' \in AdminEmails
    /\ users' = Bootstrap(users, ADMIN_EMAIL')
    /\ Len(users') <= MaxUsers
    /\ resp' = Reply("bootstrap", "Started")
    /\ UNCHANGED <<cookies, pending, login_role, paper_upload_store, ds_upload_store, papers_table, ds_table,
                   papers, datasets, news, chat, now>>

NextRestart == Login \/ Logout \/ Register \/ Admin \/ Restart

SpecRestart == Init /\ [][NextRestart]_vars

\* the Papers and Data Hub pages of one browser: opening the page renders the
\* table with the full listing, a successful publish replaces the table's data
\* with the listing it returns (a refused one leaves it: no_update), and every
\* edit of the search box runs the filter on the table's data
OpenPapers ==
    /\ \E c \in Requesters : page_papers(c)
    /\ papers_table' = IF resp'.out = "OK" THEN Fetched(resp'.rows) ELSE NoTable
    /\ UNCHANGED <<pending, login_role, paper_upload_store, ds_upload_store, ds_table>>

PublishShownPaper ==
    /\ \E c \in Requesters, t \in TitleInputs : publish_paper(c, t, None, None, NoStore)
    /\ ContentRows' <= MaxStaged
    /\ papers_table' = IF resp'.out = "OK" THEN Fetched(resp'.rows) ELSE papers_table
    /\ UNCHANGED <<pending, login_role, paper_upload_store, ds_upload_store, ds_table>>

FilterPapers ==
    /\ \E q \in SearchInputs :
           /\ papers_table' = [papers_table EXCEPT !.data = filter_papers(q, @)]
           /\ resp' = [op |-> "filter_papers", q |-> q]
    /\ UNCHANGED <<ADMIN_EMAIL, users, cookies, pending, login_role, paper_upload_store, ds_upload_store,
                   ds_table, papers, datasets, news, chat, now>>

OpenData ==
    /\ \E c \in Requesters : page_data(c)
    /\ ds_table' = IF resp'.out = "OK" THEN Fetched(resp'.rows) ELSE NoTable
    /\ UNCHANGED <<pending, login_role, paper_upload_store, ds_upload_store, papers_table>>

PublishShownDataset ==
    /\ \E c \in Requesters, t \in TitleInputs :
           publish_dataset(c, t, None, None, "members", NoStore)
    /\ ContentRows' <= MaxStaged
    /\ ds_table' = IF resp'.out = "OK" THEN Fetched(resp'.rows) ELSE ds_table
    /\ UNCHANGED <<pending, login_role, paper_upload_store, ds_upload_store, papers_table>>

FilterDs ==
    /\ \E q \in SearchInputs :
           /\ ds_table' = [ds_table EXCEPT !.data = filter_ds(q, @)]
           /\ resp' = [op |-> "filter_ds", q |-> q]
    /\ UNCHANGED <<ADMIN_EMAIL, users, cookies, pending, login_role, paper_upload_store, ds_upload_store,
                   papers_table, papers, datasets, news, chat, now>>

NextFilter ==
    LoginSeeded \/ Logout \/ OpenPapers \/ PublishShownPaper \/ FilterPapers
    \/ OpenData \/ PublishShownDataset \/ FilterDs

SpecFilter == InitSeeded /\ [][NextFilter]_vars

\* registrations whose steps interleave: each thread runs the checks of one
\* request, and later its insert
RaceForms ==
    {GoodForm(e, r) : e \in {<<"a", "@", "x">>, <<" ", "A", "@", "X">>, <<"d", "@", "x">>},
                      r \in {"patient", "researcher"}}
    \cup {[GoodForm(<<"a", "@", "x">>, "patient") EXCEPT !.password = Pw7]}

RegisterCheck ==
    /\ \E t \in 1..MaxPending, c \in Requesters, f \in RaceForms, s \in Salts :
           register_check(t, c, f.name, f.email, f.password, f.role, f.consent, s)
    /\ UNCHANGED <<login_role, paper_upload_store, ds_upload_store, papers_table, ds_table>>

RegisterInsert ==
    /\ \E t \in 1..MaxPending : register_insert(t)
    /\ UNCHANGED <<login_role, paper_upload_store, ds_upload_store, papers_table, ds_table>>

NextRace == RegisterCheck \/ RegisterInsert \/ Login \/ Logout

SpecRace == Init /\ [][NextRace]_vars

\* a conversation: the seeded users post on the channels open to both of them
\* under a clock that may stand still or step back, and the administrator keeps
\* one going, a message per clock reading, past the length a read returns
MaxFeed == 62

LongFeed ==
    \A i \in DOMAIN chat :
        /\ chat[i].created_by = 2
        /\ chat[i].created_at = i
        /\ i > 1 => chat[i].channel = "general"

FeedSend ==
    /\ Len(chat) < MaxStaged
    /\ \E c \in Requesters, ch \in {"general", "research"} : send_chat(c, ch, <<"h">>)
    /\ UNCHANGED <<pending, login_role, paper_upload_store, ds_upload_store, papers_table, ds_table>>

FeedSendOn ==
    /\ LongFeed
    /\ cookies = {1, 2}
    /\ now = Len(chat) + 1
    /\ Len(chat) < MaxFeed
    /\ send_chat(2, "general", <<"h">>)
    /\ UNCHANGED <<pending, login_role, paper_upload_store, ds_upload_store, papers_table, ds_table>>

FeedTick == Len(chat) < MaxStaged /\ Tick

FeedTickOn ==
    /\ LongFeed
    /\ now = Len(chat)
    /\ now' = now + 1
    /\ UNCHANGED <<ADMIN_EMAIL, users, cookies, pending, login_role, paper_upload_store, ds_upload_store,
                   papers_table, ds_table,
                   papers, datasets, news, chat, resp>>

FeedRead ==
    /\ Len(chat) <= MaxStaged
    /\ \E c \in Requesters, ch \in {"general", "research", "patients"} : refresh_chat(c, ch)
    /\ UNCHANGED <<pending, login_role, paper_upload_store, ds_upload_store, papers_table, ds_table>>

FeedReadOn ==
    /\ Len(chat) > MaxStaged
    /\ \E ch \in {"general", "research"} : refresh_chat(2, ch)
    /\ UNCHANGED <<pending, login_role, paper_upload_store, ds_upload_store, papers_table, ds_table>>

NextFeed ==
    LoginSeeded \/ FeedSend \/ FeedSendOn \/ FeedTick \/ FeedTickOn \/ FeedRead \/ FeedReadOn

SpecFeed == InitSeeded /\ [][NextFeed]_vars

\* the console's deactivate button on each row
Deactivate ==
    /\ \E c \in Requesters, uid \in DOMAIN users :
           admin_actions(c, "btn-admin-deactivate", TRUE, uid, "researcher")
    /\ UNCHANGED <<pending, login_role, paper_upload_store, ds_upload_store, papers_table, ds_table>>

\* the console's set-role button with admin chosen, on each row
Promote ==
    /\ \E c \in Requesters, uid \in DOMAIN users :
           admin_actions(c, "btn-admin-setrole", TRUE, uid, "admin")
    /\ UNCHANGED <<pending, login_role, paper_upload_store, ds_upload_store, papers_table, ds_table>>

\* the paper and news forms filled in, the paper with a file
PublishFilledPaper ==
    /\ \E c \in Requesters :
           publish_paper(c, <<"D">>, None, None, cache_ds_upload(Contents(FileA), FileName))
    /\ ContentRows' <= MaxRecords
    /\ UNCHANGED <<pending, login_role, paper_upload_store, ds_upload_store, papers_table, ds_table>>
PublishFilledNews ==
    /\ \E c \in Requesters : publish_news(c, <<"D">>, None, <<"B">>)
    /\ ContentRows' <= MaxRecords
    /\ UNCHANGED <<pending, login_role, paper_upload_store, ds_upload_store, papers_table, ds_table>>

\* the seeded users' sessions, the console's two buttons, and the requests a
\* signed-in member makes
NextDeactivated ==
    LoginSeeded \/ Promote \/ Deactivate \/ PublishFilledPaper \/ PublishForResearchers
    \/ PublishFilledNews \/ RefreshNews \/ RefreshChat \/ SendText \/ DownloadPaper
    \/ DownloadDataset \/ PagePatients \/ ListPatients

SpecDeactivated == InitSeeded /\ [][NextDeactivated]_vars

\* the three publish forms, used by the seeded users and by visitors
NextContent == LoginSeeded \/ Logout \/ PublishPaper \/ PublishDataset \/ PublishNews

SpecContent == InitSeeded /\ [][NextContent]_vars

-----------------------------------------------------------------------------
(* C1: for every role and every channel value, reading a channel               *)
(* (refresh_chat) and posting to it (send_chat) get past the access check      *)
(* exactly when the table allows it: general for the four roles, research for  *)
(* admin, researcher and doctor, patients for admin and patient, any other     *)
(* channel for nobody; a request that is not authenticated reads and posts     *)
(* nothing.                                                                    *)

ChannelTable(role, ch) ==
    \/ ch = "general" /\ role \in {"admin", "researcher", "doctor", "patient"}
    \/ ch = "research" /\ role \in {"admin", "researcher", "doctor"}
    \/ ch = "patients" /\ role \in {"admin", "patient"}

ChatAllowed(c, ch) ==
    is_authenticated(current_user(c)) /\ ChannelTable(current_user(c).role, ch)

C1_ChatMatchesTable ==
    /\ resp.op = "refresh_chat" =>
          /\ (resp.out = "OK") <=> ChatAllowed(resp.c, resp.channel)
          /\ resp.out # "OK" => resp.items = <<>>
    /\ resp.op = "send_chat" =>
          (resp.out \in {"Sent", "EmptyMessage"}) <=> ChatAllowed(resp.c, resp.channel)

C1_Witness ==
    /\ resp.op = "refresh_chat"
    /\ resp.out = "Restricted"
    /\ resp.channel = "patients"
    /\ current_user(resp.c).role = "doctor"
    /\ Len(chat) > 0

-----------------------------------------------------------------------------
(* C2: download_dataset never gives the bytes of a dataset whose visibility is *)
(* researchers to a requester whose current role is doctor or patient, nor to  *)
(* one that is not authenticated; a doctor or patient asking for such a        *)
(* dataset that has a stored file gets Forbidden, admin and researcher get the *)
(* stored bytes.                                                               *)

C2_ResearchersOnlyDownload ==
    (/\ resp.op = "download_dataset"
     /\ resp.id \in DOMAIN datasets
     /\ datasets[resp.id].visibility = "researchers") =>
        LET u == current_user(resp.c)
            ds == datasets[resp.id]
        IN  /\ (~is_authenticated(u) \/ u.role \in {"doctor", "patient"}) =>
                    (resp.body = NoBytes /\ resp.out # "OK")
            /\ (is_authenticated(u) /\ u.role \in {"doctor", "patient"}
                    /\ TruthyBytes(ds.file_bytes)) => resp.out = "Forbidden"
            /\ (is_authenticated(u) /\ u.role \in {"admin", "researcher"}
                    /\ TruthyBytes(ds.file_bytes)) =>
                    (resp.out = "OK" /\ resp.body = ds.file_bytes)

C2_Witness ==
    /\ resp.op = "download_dataset"
    /\ resp.out = "Forbidden"
    /\ resp.id \in DOMAIN datasets
    /\ datasets[resp.id].visibility = "researchers"
    /\ datasets[resp.id].file_bytes = FileA
    /\ current_user(resp.c).role = "doctor"

-----------------------------------------------------------------------------
(* C3: a publish_dataset request with a title from an authenticated requester  *)
(* that asks for visibility researchers is refused (Unauthorized) and stores   *)
(* nothing when the requester's role is patient or doctor, and stores the      *)
(* dataset when it is admin or researcher; so every dataset stored with        *)
(* visibility researchers is stored by a requester whose role is admin or      *)
(* researcher at that moment, and every stored visibility is members or        *)
(* researchers (any other submitted value is stored as members).               *)

C3_PublishVisibility ==
    [][(resp'.op = "publish_dataset" /\ resp'.out \in {"Unauthorized", "OK"}) =>
         LET u == current_user(resp'.c)
             new == datasets'[Len(datasets')]
         IN  /\ (resp'.vis = "researchers" /\ u.role \in {"patient", "doctor"}) =>
                    (resp'.out = "Unauthorized" /\ datasets' = datasets)
             /\ resp'.out = "Unauthorized" => datasets' = datasets
             /\ (resp'.vis = "researchers" /\ u.role \in {"admin", "researcher"}) =>
                    resp'.out = "OK"
             /\ resp'.out = "OK" =>
                    /\ datasets' = Append(datasets, new)
                    /\ new.uploaded_by = u.id
                    /\ new.visibility =
                          (IF resp'.vis \in {"members", "researchers"} THEN resp'.vis ELSE "members")
                    /\ new.visibility = "researchers" => u.role \in {"admin", "researcher"}
             /\ \A i \in DOMAIN datasets' :
                    datasets'[i].visibility \in {"members", "researchers"}
      ]_vars

C3_Witness ==
    /\ resp.op = "publish_dataset"
    /\ resp.out = "Unauthorized"
    /\ resp.vis = "researchers"
    /\ current_user(resp.c).role = "doctor"
    /\ \E i \in DOMAIN datasets : datasets[i].visibility = "researchers"

-----------------------------------------------------------------------------
(* C4: the patient directory (names and emails of the users with role patient) *)
(* is returned only to requesters whose current role is admin or researcher:   *)
(* neither page_patients nor filter_patients returns patient rows to a doctor, *)
(* a patient or a requester that is not authenticated.                         *)

C4_PatientDirectoryRestricted ==
    (resp.op \in {"page_patients", "filter_patients"} /\ resp.rows # {}) =>
        /\ is_authenticated(current_user(resp.c))
        /\ current_user(resp.c).role \in {"admin", "researcher"}

-----------------------------------------------------------------------------
(* C5: a requester that is not authenticated is given no paper and no news     *)
(* content by the home page, the papers page or the news feed refresh.         *)

C5_NoContentForAnonymous ==
    (resp.op \in {"page_home", "page_papers", "refresh_news"}
        /\ ~is_authenticated(current_user(resp.c))) =>
        /\ resp.op = "page_home" => (resp.papers = <<>> /\ resp.news = <<>>)
        /\ resp.op = "page_papers" => resp.rows = <<>>
        /\ resp.op = "refresh_news" => resp.news = <<>>

-----------------------------------------------------------------------------
(* C6: no dataset listing given to a doctor or a patient (the Data Hub page,   *)
(* the listing a successful publish_dataset returns) has a row of a dataset    *)
(* whose visibility is researchers.                                            *)

C6_ListingHidesResearchersOnly ==
    (resp.op \in {"page_data", "publish_dataset"}
        /\ current_user(resp.c).role \in {"doctor", "patient"}) =>
        \A i \in DOMAIN resp.rows : resp.rows[i].Visibility # "researchers"

-----------------------------------------------------------------------------
(* C7: admin_actions (set role, deactivate) requested by anyone whose role is  *)
(* not admin, or who is not authenticated, answers Unauthorized whatever the   *)
(* target and the role asked for, and changes no user.                         *)

C7_AdminOnly ==
    [][(resp'.op = "admin_actions"
          /\ ~(is_authenticated(current_user(resp'.c))
                /\ current_user(resp'.c).role = "admin")) =>
         (resp'.out = "Unauthorized" /\ users' = users)
      ]_vars

C7_Witness ==
    /\ resp.op = "admin_actions"
    /\ resp.out = "Unauthorized"
    /\ is_authenticated(current_user(resp.c))
    /\ current_user(resp.c).role = "doctor"

-----------------------------------------------------------------------------
(* C8: a deactivate by an admin on the admin's own row answers                 *)
(* SelfDeactivation and changes no user, the admin staying active; a           *)
(* deactivate by an admin on any other existing user sets that user's          *)
(* is_active to false and changes nothing else.                                *)

C8_Deactivate ==
    [][(/\ resp'.op = "admin_actions"
        /\ resp'.trig = "btn-admin-deactivate"
        /\ resp'.uid \in DOMAIN users) =>
         IF resp'.uid = resp'.c
         THEN /\ resp'.out = "SelfDeactivation"
              /\ users' = users
              /\ users'[resp'.c].is_active
         ELSE /\ resp'.out = "Deactivated"
              /\ users' = [users EXCEPT ![resp'.uid].is_active = FALSE]
              /\ UNCHANGED <<cookies, papers, datasets, news, chat>>
      ]_vars

C8_Witness ==
    /\ resp.op = "admin_actions"
    /\ resp.out = "SelfDeactivation"
    /\ resp.uid = resp.c
    /\ \E i \in DOMAIN users : ~users[i].is_active

-----------------------------------------------------------------------------
(* C9: a successful register creates exactly one user, whose role is           *)
(* researcher if the request said researcher and patient otherwise; no         *)
(* register, whatever it sends, creates a user with role doctor or admin.      *)

C9_RegisterRole ==
    [][resp'.op = "do_register" =>
         IF resp'.out = "OK"
         THEN /\ Len(users') = Len(users) + 1
              /\ SubSeq(users', 1, Len(users)) = users
              /\ users'[Len(users')].role =
                    (IF resp'.role = "researcher" THEN "researcher" ELSE "patient")
              /\ users'[Len(users')].role \notin {"doctor", "admin"}
         ELSE users' = users
      ]_vars

C9_Witness ==
    /\ resp.op = "do_register"
    /\ resp.out = "OK"
    /\ resp.role = "admin"
    /\ users[Len(users)].role = "patient"

-----------------------------------------------------------------------------
(* C10: no two stored users have emails that are equal ignoring case, and      *)
(* every stored email is lowercase.                                            *)

C10_EmailsNormalised ==
    /\ \A i \in DOMAIN users : users[i].email = lower(users[i].email)
    /\ \A i, j \in DOMAIN users :
          lower(users[i].email) = lower(users[j].email) => i = j

-----------------------------------------------------------------------------
(* C11: a register request with consent, a name and an email containing "@"    *)
(* whose password is present but shorter than 8 characters (7 in particular)   *)
(* answers WeakCredential, creates no user and changes no session; with a      *)
(* password of exactly 8 characters and an email no user has, it answers OK,   *)
(* appends the user with is_active true and logs the new user in.              *)

C11_WellFormed(f) ==
    /\ f.consent
    /\ Truthy(f.name)
    /\ Truthy(f.email)
    /\ Contains(lower(strip(f.email)), "@")

C11_PasswordLength ==
    [][resp'.op = "do_register" =>
       \A c \in Requesters, f \in RegisterForms, s \in Salts :
         (do_register(c, f.name, f.email, f.password, f.role, f.consent, s) /\ C11_WellFormed(f)) =>
            /\ (Truthy(f.password) /\ Len(f.password) < 8) =>
                  /\ resp'.out = "WeakCredential"
                  /\ users' = users
                  /\ cookies' = cookies
            /\ (Truthy(f.password) /\ Len(f.password) = 8
                    /\ UsersByEmail(lower(strip(f.email))) = {}) =>
                  /\ resp'.out = "OK"
                  /\ Len(users') = Len(users) + 1
                  /\ SubSeq(users', 1, Len(users)) = users
                  /\ users'[Len(users')].email = lower(strip(f.email))
                  /\ users'[Len(users')].is_active
                  /\ check_password_hash(users'[Len(users')].password_hash, f.password)
                  /\ Len(users') \in cookies'
                  /\ is_authenticated(users'[Len(users')])
      ]_vars

C11_Witness ==
    /\ resp.op = "do_register"
    /\ resp.out = "WeakCredential"
    /\ \E i \in DOMAIN users : users[i].email = <<"a", "@", "x">> /\ i \in cookies

-----------------------------------------------------------------------------
(* C12: a login with an email and a password answers the one                   *)
(* InvalidCredentials reply both when no user has the email and when a user    *)
(* has it but the password does not verify, and no session changes; when the   *)
(* password verifies and the user's is_active is false it answers              *)
(* AccountDeactivated and no session changes; the browser's session changes    *)
(* only when a user has the email, the password verifies and the user is       *)
(* active, and then it names that user.                                        *)

C12_Authenticate ==
    [][resp'.op = "do_login" =>
       \A c \in Requesters, e \in EmailInputs, p \in LoginPasswords :
         (do_login(c, e, p) /\ Truthy(e) /\ Truthy(p)) =>
            LET found == UsersByEmail(lower(strip(e)))
                verified == {i \in found : check_password_hash(users[i].password_hash, p)}
            IN  /\ verified = {} =>
                      /\ resp' = [op |-> "do_login", out |-> "InvalidCredentials"]
                      /\ cookies' = cookies
                /\ (verified # {} /\ \A i \in verified : ~users[i].is_active) =>
                      /\ resp'.out = "AccountDeactivated"
                      /\ cookies' = cookies
                /\ (resp'.out = "OK" \/ cookies' # cookies) =>
                      \E i \in verified :
                          /\ users[i].is_active
                          /\ resp'.out = "OK"
                          /\ cookies' = (cookies \ {c}) \cup {i}
      ]_vars

C12_Witness ==
    /\ resp.op = "do_login"
    /\ resp.out = "AccountDeactivated"
    /\ \E i \in DOMAIN users : ~users[i].is_active /\ i \notin cookies
    /\ cookies # {}

-----------------------------------------------------------------------------
(* C13: in every state reached after the bootstrap by register, set-role and   *)
(* deactivate requests, exactly one user has role admin.                       *)

C13_ExactlyOneAdmin == Cardinality({i \in DOMAIN users : users[i].role = "admin"}) = 1

-----------------------------------------------------------------------------
(* C14: a request made with a session that was established while its user     *)
(* had another role than the user has now (a set-role has committed since) is  *)
(* decided by the role the user has now: channel read and send, download of a  *)
(* dataset with a file, publish with visibility researchers, the patient       *)
(* directory and the admin console.                                            *)

C14_Stale(c) ==
    /\ c \in DOMAIN login_role
    /\ c \in DOMAIN users
    /\ users[c].is_active
    /\ login_role[c] # users[c].role

C14_NoStaleRole ==
    [][(resp'.op \in {"refresh_chat", "send_chat", "download_dataset", "publish_dataset",
                      "page_patients", "filter_patients", "admin_actions"}
          /\ C14_Stale(resp'.c)) =>
         LET r == users[resp'.c].role IN
         /\ resp'.op = "refresh_chat" =>
               ((resp'.out = "OK") <=> ChannelTable(r, resp'.channel))
         /\ resp'.op = "send_chat" =>
               ((resp'.out \in {"Sent", "EmptyMessage"}) <=> ChannelTable(r, resp'.channel))
         /\ (resp'.op = "download_dataset" /\ resp'.id \in DOMAIN datasets
                /\ TruthyBytes(datasets[resp'.id].file_bytes)) =>
               resp'.out = (IF datasets[resp'.id].visibility = "researchers"
                                 /\ r \notin {"admin", "researcher"}
                            THEN "Forbidden" ELSE "OK")
         /\ (resp'.op = "publish_dataset" /\ resp'.out \in {"OK", "Unauthorized"}
                /\ resp'.vis = "researchers") =>
               ((resp'.out = "OK") <=> r \in {"admin", "researcher"})
         /\ resp'.op = "page_patients" => ((resp'.out = "SelfSummary") <=> r = "patient")
         /\ resp'.op = "filter_patients" => ((resp'.out = "OK") <=> r \in {"admin", "researcher"})
         /\ resp'.op = "admin_actions" => ((resp'.out # "Unauthorized") <=> r = "admin")
      ]_vars

C14_Witness ==
    /\ resp.op = "download_dataset"
    /\ resp.out = "Forbidden"
    /\ C14_Stale(resp.c)
    /\ login_role[resp.c] = "admin"
    /\ users[resp.c].role = "patient"

-----------------------------------------------------------------------------
(* C15: after a successful publish of a paper or a dataset that attached the   *)
(* file held in the page's upload store, that store is empty, so the next      *)
(* publish from the page attaches no file unless a file is staged again.       *)

C15_StagingConsumed ==
    [][/\ (resp'.op = "publish_paper" /\ resp'.out = "OK"
             /\ TruthyBytes(papers'[Len(papers')].file_bytes)) =>
            paper_upload_store' = NoStore
       /\ (resp'.op = "publish_dataset" /\ resp'.out = "OK"
             /\ TruthyBytes(datasets'[Len(datasets')].file_bytes)) =>
            ds_upload_store' = NoStore
      ]_vars

-----------------------------------------------------------------------------
(* C16: for every file staged (the empty file included) and then published     *)
(* with a paper or a dataset, the record stores exactly the staged bytes, the  *)
(* listing marks it as having a file, and a download by an authenticated       *)
(* requester returns those bytes; a record published with nothing staged has   *)
(* no file, is listed without one, and its download answers NotFound.          *)

C16_Stored(store, staged(_, _), rec, mark) ==
    /\ \A raw \in Files :
          store = staged(Contents(raw), FileName) => (rec.file_bytes = raw /\ mark = "Yes")
    /\ store = NoStore => (rec.file_bytes = NoBytes /\ mark = "No")

C16_Download(out, body, rec) ==
    IF rec.file_bytes = NoBytes
    THEN out = "NotFound" /\ body = NoBytes
    ELSE out = "OK" /\ body = rec.file_bytes

C16_RoundTrip ==
    [][/\ (resp'.op = "publish_paper" /\ resp'.out = "OK") =>
            \E i \in DOMAIN resp'.rows :
                /\ resp'.rows[i].ID = Len(papers')
                /\ C16_Stored(paper_upload_store, cache_paper_upload,
                              papers'[Len(papers')], resp'.rows[i].PDF)
       /\ (resp'.op = "publish_dataset" /\ resp'.out = "OK") =>
            \E i \in DOMAIN resp'.rows :
                /\ resp'.rows[i].ID = Len(datasets')
                /\ C16_Stored(ds_upload_store, cache_ds_upload,
                              datasets'[Len(datasets')], resp'.rows[i].File)
       /\ (resp'.op = "download_paper" /\ resp'.id \in DOMAIN papers
             /\ is_authenticated(current_user(resp'.c))) =>
            C16_Download(resp'.out, resp'.body, papers[resp'.id])
       /\ (resp'.op = "download_dataset" /\ resp'.id \in DOMAIN datasets
             /\ is_authenticated(current_user(resp'.c))) =>
            C16_Download(resp'.out, resp'.body, datasets[resp'.id])
      ]_vars

-----------------------------------------------------------------------------
(* C17: a publish that is refused stores nothing and changes no stored row:    *)
(* publish_paper and publish_dataset without a title or from a requester that  *)
(* is not authenticated, publish_dataset asking for visibility researchers     *)
(* from a role other than admin and researcher, publish_news without a title   *)
(* or a body or from a requester that is not authenticated.                    *)

C17_Missing(s) == s = None \/ s = <<>>

C17_NothingStored ==
    /\ resp'.out # "OK"
    /\ UNCHANGED <<users, papers, datasets, news, chat>>

C17_FailedPublish ==
    [][/\ resp'.op = "publish_paper" =>
            \A c \in Requesters, t \in TitleInputs, st \in UploadStores :
                (publish_paper(c, t, None, None, st)
                    /\ (~is_authenticated(current_user(c)) \/ C17_Missing(t)))
                => C17_NothingStored
       /\ resp'.op = "publish_dataset" =>
            \A c \in Requesters, t \in TitleInputs, v \in VisibilityInputs, st \in UploadStores :
                (publish_dataset(c, t, None, None, v, st)
                    /\ (\/ ~is_authenticated(current_user(c))
                        \/ C17_Missing(t)
                        \/ (v = "researchers"
                              /\ current_user(c).role \notin {"admin", "researcher"})))
                => C17_NothingStored
       /\ resp'.op = "publish_news" =>
            \A c \in Requesters, t \in TitleInputs, b \in BodyInputs :
                (publish_news(c, t, None, b)
                    /\ (~is_authenticated(current_user(c)) \/ C17_Missing(t) \/ C17_Missing(b)))
                => C17_NothingStored
      ]_vars

C17_Witness ==
    /\ resp.op = "publish_paper"
    /\ resp.out = "MissingField"
    /\ Len(papers) = 1
    /\ is_authenticated(current_user(resp.c))

-----------------------------------------------------------------------------
(* C18: the listing a successful publish of a paper or a dataset returns has   *)
(* the record just published as its first row, whatever was published before   *)
(* and whatever the clock read at each insert (the same reading twice and an    *)
(* earlier reading after a later one included).                                *)

C18_NewestFirst ==
    [][/\ (resp'.op = "publish_paper" /\ resp'.out = "OK") =>
            resp'.rows[1].ID = papers'[Len(papers')].id
       /\ (resp'.op = "publish_dataset" /\ resp'.out = "OK") =>
            resp'.rows[1].ID = datasets'[Len(datasets')].id
      ]_vars

-----------------------------------------------------------------------------
(* C19: a set-role request from an admin with a row selected answers NotFound  *)
(* and changes no user when no user has the target id; for an existing target  *)
(* it answers InvalidRole and changes no user when the new role is not admin,  *)
(* researcher or patient (doctor in particular), and otherwise sets the        *)
(* target's role to the new role and changes nothing else: no other user, and  *)
(* no other field of the target (is_active included).                          *)

C19_SetRole ==
    [][resp'.op = "admin_actions" =>
       \A c \in Requesters, f \in AdminForms :
         (/\ admin_actions(c, f.trig, f.selected, f.uid, f.new_role)
          /\ is_authenticated(current_user(c))
          /\ current_user(c).role = "admin"
          /\ f.selected
          /\ f.trig = "btn-admin-setrole") =>
            IF f.uid \notin DOMAIN users
            THEN resp'.out = "NotFound" /\ users' = users
            ELSE IF f.new_role \notin {"admin", "researcher", "patient"}
            THEN resp'.out = "InvalidRole" /\ users' = users
            ELSE /\ resp'.out = "RoleUpdated"
                 /\ Len(users') = Len(users)
                 /\ users'[f.uid].role = f.new_role
                 /\ users'[f.uid].is_active = users[f.uid].is_active
                 /\ users'[f.uid] = [users[f.uid] EXCEPT !.role = f.new_role]
                 /\ \A i \in DOMAIN users : i # f.uid => users'[i] = users[i]
      ]_vars

C19_Witness ==
    /\ resp.op = "admin_actions"
    /\ resp.out = "InvalidRole"
    /\ resp.uid \in DOMAIN users
    /\ resp.uid # resp.c
    /\ users[resp.uid].role = "admin"
    /\ ~users[resp.uid].is_active

-----------------------------------------------------------------------------
(* C20: both download routes redirect a requester that is not authenticated    *)
(* and give no bytes, whatever the id; give an authenticated requester         *)
(* NotFound when no record has the id or the record has no stored bytes;       *)
(* download_paper gives the stored bytes to every authenticated role, and      *)
(* download_dataset gives the stored bytes of a dataset with visibility        *)
(* members to every authenticated role.                                        *)

C20_Outcome(u, recs, id, open(_)) ==
    /\ ~is_authenticated(u) => (resp.out = "Redirect" /\ resp.body = NoBytes)
    /\ (is_authenticated(u)
          /\ (id \notin DOMAIN recs \/ recs[id].file_bytes \in {NoBytes, <<>>})) =>
            (resp.out = "NotFound" /\ resp.body = NoBytes)
    /\ (is_authenticated(u) /\ id \in DOMAIN recs /\ recs[id].file_bytes \notin {NoBytes, <<>>}
          /\ open(recs[id])) =>
            (u.role \in Roles /\ resp.out = "OK" /\ resp.body = recs[id].file_bytes)

C20_PaperOpen(p) == TRUE
C20_DatasetOpen(ds) == ds.visibility = "members"

C20_DownloadOutcomes ==
    /\ resp.op = "download_paper" =>
          C20_Outcome(current_user(resp.c), papers, resp.id, C20_PaperOpen)
    /\ resp.op = "download_dataset" =>
          C20_Outcome(current_user(resp.c), datasets, resp.id, C20_DatasetOpen)

C20_Witness ==
    /\ resp.op = "download_paper"
    /\ resp.out = "OK"
    /\ resp.body = FileA
    /\ current_user(resp.c).role = "patient"

-----------------------------------------------------------------------------
(* C21: a process start whose configured admin email no user has appends       *)
(* exactly one user, with that email, role admin and is_active true; a start   *)
(* whose configured admin email some user has, after any requests and any      *)
(* earlier starts, changes no user: none is added, and the role, password hash *)
(* and is_active of the user with that email stay as they were.                *)

C21_BootstrapIdempotent ==
    [][resp'.op = "bootstrap" =>
         IF \E i \in DOMAIN users : users[i].email = ADMIN_EMAIL'
         THEN users' = users
         ELSE /\ Len(users') = Len(users) + 1
              /\ SubSeq(users', 1, Len(users)) = users
              /\ users'[Len(users')].email = ADMIN_EMAIL'
              /\ users'[Len(users')].role = "admin"
              /\ users'[Len(users')].is_active
      ]_vars

C21_Witness ==
    /\ resp.op = "bootstrap"
    /\ \E i \in DOMAIN users :
          /\ users[i].email = ADMIN_EMAIL
          /\ users[i].role = "patient"
          /\ ~users[i].is_active

-----------------------------------------------------------------------------
(* C22: no step removes a user or changes a user's id (the ids only grow);     *)
(* only a register and a process start's bootstrap add a user; a user's role   *)
(* or is_active changes only in an admin_actions step on that user, requested  *)
(* by a user who is authenticated with role admin when the request is made.    *)

C22_Lifecycle ==
    [][/\ Len(users') >= Len(users)
       /\ \A i \in DOMAIN users : users'[i].id = users[i].id
       /\ Len(users') > Len(users) =>
             /\ resp'.op \in {"do_register", "bootstrap"}
             /\ Len(users') = Len(users) + 1
       /\ \A i \in DOMAIN users :
             (users'[i].role # users[i].role \/ users'[i].is_active # users[i].is_active) =>
                /\ resp'.op = "admin_actions"
                /\ resp'.out \in {"RoleUpdated", "Deactivated"}
                /\ resp'.uid = i
                /\ is_authenticated(current_user(resp'.c))
                /\ current_user(resp'.c).role = "admin"
                /\ \A j \in DOMAIN users : j # i => users'[j] = users[j]
      ]_vars

C22_Witness ==
    /\ resp.op = "admin_actions"
    /\ resp.out = "Deactivated"
    /\ current_user(resp.c).role = "admin"
    /\ users[resp.uid].role = "researcher"
    /\ ~users[resp.uid].is_active

-----------------------------------------------------------------------------
(* C23: after every edit of a search box, the papers (datasets) table shows    *)
(* exactly the rows of the listing last fetched into it whose title, tags,     *)
(* uploader name or link contains the trimmed, lowercased query; with an       *)
(* empty query it shows the whole fetched listing, also after a narrower       *)
(* query.                                                                      *)

C23_Expected(q, fetched) ==
    LET query == IF q = None THEN <<>> ELSE lower(strip(q)) IN
    SelectSeq(fetched, LAMBDA r :
        \/ query = <<>>
        \/ \E text \in {r.Title, r.Tags, r.Uploaded_by, r.Link} :
              \E i \in 1..(Len(text) + 1 - Len(query)) :
                 lower(SubSeq(text, i, i + Len(query) - 1)) = query)

C23_FilterShowsMatches ==
    /\ resp.op = "filter_papers" => papers_table.data = C23_Expected(resp.q, papers_table.fetched)
    /\ resp.op = "filter_ds" => ds_table.data = C23_Expected(resp.q, ds_table.fetched)

-----------------------------------------------------------------------------
(* C24: when the checks and inserts of register requests with the same         *)
(* normalised email interleave, at most one user with that email is stored,    *)
(* and every request that stores none is answered with one of the callback's   *)
(* own messages (DuplicateEmail), never with the database's error.             *)

C24_ConcurrentRegister ==
    /\ \A i, j \in DOMAIN users : users[i].email = users[j].email => i = j
    /\ resp.op = "do_register" =>
          resp.out \in {"OK", "DuplicateEmail", "WeakCredential", "InvalidEmail",
                        "MissingField", "ConsentRequired"}

-----------------------------------------------------------------------------
(* C25: every stored chat message has a channel among general, research and    *)
(* patients and a text that is trimmed and not empty; a send_chat stores one   *)
(* message, with the channel asked for, the trimmed text and the requester as  *)
(* creator, when the requester is authenticated, the table allows the role on  *)
(* the channel and the text has a character other than blanks; any other       *)
(* send_chat (not authenticated, restricted or unknown channel, no text,       *)
(* blanks only) stores nothing.                                                *)

C25_ChatMessages ==
    [][/\ \A i \in DOMAIN chat' :
             /\ chat'[i].channel \in {"general", "research", "patients"}
             /\ Len(chat'[i].message) > 0
             /\ chat'[i].message[1] # " "
             /\ chat'[i].message[Len(chat'[i].message)] # " "
       /\ resp'.op = "send_chat" =>
             \A c \in Requesters, ch \in ChannelInputs, t \in TextInputs :
                send_chat(c, ch, t) =>
                   IF /\ is_authenticated(current_user(c))
                      /\ ChannelTable(current_user(c).role, ch)
                      /\ t # None
                      /\ \E k \in DOMAIN t : t[k] # " "
                   THEN /\ Len(chat') = Len(chat) + 1
                        /\ SubSeq(chat', 1, Len(chat)) = chat
                        /\ chat'[Len(chat')].channel = ch
                        /\ chat'[Len(chat')].created_by = c
                        /\ chat'[Len(chat')].message = strip(t)
                   ELSE chat' = chat
      ]_vars

C25_Witness ==
    /\ resp.op = "send_chat"
    /\ resp.out = "EmptyMessage"
    /\ Len(chat) = 1
    /\ chat[1].channel = "patients"

-----------------------------------------------------------------------------
(* C26: a permitted read of a channel returns items of that channel only: as   *)
(* many as the channel has messages, and 60 when it has more; the items are    *)
(* those of the messages with the latest creation stamps, the messages of an   *)
(* earlier stamp before those of a later one (messages of one stamp come in    *)
(* any order, and when the 60 cut through a stamp any of its messages may be   *)
(* the ones kept). A read that is not permitted returns no item.               *)

\* the messages of channel ch stamped t, and those stamped later
C26_At(ch, t) == {i \in DOMAIN chat : chat[i].channel = ch /\ chat[i].created_at = t}
C26_After(ch, t) == {i \in DOMAIN chat : chat[i].channel = ch /\ chat[i].created_at > t}

C26_Feed(items, ch) ==
    LET all == {i \in DOMAIN chat : chat[i].channel = ch}
        k == IF Cardinality(all) < 60 THEN Cardinality(all) ELSE 60
    IN
    /\ Len(items) = k
    /\ \A j \in DOMAIN items : items[j].Channel = ch
    /\ \A t \in {chat[i].created_at : i \in all} :
          LET at == C26_At(ch, t)
              last == k - Cardinality(C26_After(ch, t))
              first == IF last - Cardinality(at) + 1 < 1 THEN 1 ELSE last - Cardinality(at) + 1
          IN
          last >= 1 =>
             /\ \A j \in first..last : \E i \in at : items[j] = ChatItem(chat[i])
             /\ \A i \in at :
                   LET shown == Cardinality({j \in first..last : items[j] = ChatItem(chat[i])})
                       sent == Cardinality({h \in at : ChatItem(chat[h]) = ChatItem(chat[i])})
                   IN IF last - first + 1 = Cardinality(at) THEN shown = sent ELSE shown <= sent

-----------------------------------------------------------------------------
(* C27: starting from the database the bootstrap block creates, after any      *)
(* sequence of register, login, logout, set-role and deactivate requests every *)
(* stored user has role admin, researcher or patient: no user has role doctor. *)

C27_NoDoctor ==
    \A i \in DOMAIN users : users[i].role \in {"admin", "researcher", "patient"}

C27_Witness ==
    /\ resp.op = "admin_actions"
    /\ resp.out = "InvalidRole"
    /\ resp.uid = 2
    /\ users[2].role = "patient"
    /\ users[2].is_active

-----------------------------------------------------------------------------
(* C28: in every reachable state some stored user has role admin and is        *)
(* active.                                                                     *)

C28_ActiveAdmin ==
    \E i \in DOMAIN users : users[i].role = "admin" /\ users[i].is_active

-----------------------------------------------------------------------------
(* C29: a user that is not active stays stored and not active in every step    *)
(* (no request and no process start sets is_active back to true), and a login  *)
(* with the email of a user that is not active is refused and changes no       *)
(* session, whatever the password given and whatever role the user has.        *)

C29_DeactivationPermanent ==
    [][/\ \A i \in DOMAIN users :
             ~users[i].is_active =>
                /\ i \in DOMAIN users'
                /\ ~users'[i].is_active
                /\ users'[i].email = users[i].email
       /\ resp'.op = "do_login" =>
             \A c \in Requesters, e \in EmailInputs, p \in LoginPasswords :
                (/\ do_login(c, e, p)
                 /\ e # None
                 /\ \E i \in DOMAIN users :
                       ~users[i].is_active /\ users[i].email = lower(strip(e))) =>
                   /\ resp'.out \in {"MissingField", "InvalidCredentials", "AccountDeactivated"}
                   /\ cookies' = cookies
      ]_vars

C29_Witness ==
    /\ resp.op = "do_login"
    /\ resp.out = "AccountDeactivated"
    /\ \E i \in DOMAIN users : i # 1 /\ ~users[i].is_active /\ users[i].role = "admin"
    /\ 2 \in cookies

-----------------------------------------------------------------------------
(* C30: a request made with the session of a user who is not active (the       *)
(* session was established before the deactivation: no login succeeds after    *)
(* it) gets the answer a visitor without a session gets, and changes no table: *)
(* the publish forms answer LoginRequired, the chat read and the news feed     *)
(* come back empty, the chat send answers LoginRequired, the download routes   *)
(* redirect to the login page with no bytes, the patient directory and its     *)
(* search show no row, and the admin console's buttons answer Unauthorized.    *)

C30_Deactivated(c) == c \in cookies /\ c \in DOMAIN users /\ ~users[c].is_active

C30_Refused(r) ==
    CASE r.op \in {"publish_paper", "publish_dataset"} -> r.out = "LoginRequired" /\ r.rows = <<>>
      [] r.op \in {"publish_news", "send_chat"} -> r.out = "LoginRequired"
      [] r.op = "refresh_chat" -> r.out = "Empty" /\ r.items = <<>>
      [] r.op = "refresh_news" -> r.out = "Empty" /\ r.news = <<>>
      [] r.op \in {"download_paper", "download_dataset"} -> r.out = "Redirect" /\ r.body = NoBytes
      [] r.op = "page_patients" -> r.out = "LoginRequired" /\ r.rows = {}
      [] r.op = "filter_patients" -> r.out = "Empty" /\ r.rows = {}
      [] r.op = "admin_actions" -> r.out = "Unauthorized" /\ r.rows = {}

C30_DeactivatedSession ==
    [][(/\ resp'.op \in {"publish_paper", "publish_dataset", "publish_news", "send_chat",
                          "refresh_chat", "refresh_news", "download_paper", "download_dataset",
                          "page_patients", "filter_patients", "admin_actions"}
        /\ C30_Deactivated(resp'.c)) =>
           /\ C30_Refused(resp')
           /\ UNCHANGED <<users, cookies, papers, datasets, news, chat>>
      ]_vars

C30_Witness ==
    /\ resp.op = "download_paper"
    /\ resp.out = "Redirect"
    /\ C30_Deactivated(resp.c)
    /\ users[resp.c].role = "admin"
    /\ resp.id \in DOMAIN papers
    /\ TruthyBytes(papers[resp.id].file_bytes)

Next == Login \/ Logout \/ Register \/ Admin

Spec == Init /\ [][Next]_vars

====
